---- MODULE Spec2Model ----
(***************************************************************************)
(* A model of the wi_scraper package: the date windower (utils.py,         *)
(* scraper.build_windows), row normalisation (models.py), the sweep        *)
(* fetch_case_summaries and flatten_aggregated (scraper.py) and the part   *)
(* of WICourtClient (client.py) the sweep drives.                          *)
(*                                                                         *)
(* Dates are proleptic Gregorian day ordinals, as date.toordinal() gives   *)
(* them: date arithmetic is integer arithmetic on ordinals, and a result   *)
(* outside DateMin..DateMax raises OverflowError, as datetime does.        *)
(***************************************************************************)
EXTENDS Integers, Sequences, FiniteSets, TLC

VARIABLES
    start,        \* argument start (a date ordinal)
    end,          \* argument end (a date ordinal, or NoDate for None)
    span_days,    \* argument span_days
    today,        \* what date.today() returns
    pc,           \* position of the running call
    gen,          \* state of the build_windows/iter_windows generator pair
    built,        \* the windows the generator has yielded so far, in order
    error,        \* the exception the call ended with, "none" when none
    class_codes,  \* argument class_codes: the .code of each entry, in order
    client,       \* argument client: "caller" (one was passed) or "none"
    raw_case,     \* the row of a response that from_api is given
    own_client,   \* local own_client
    window,       \* loop variable window
    ci,           \* position of the class_codes loop (1-based)
    pending,      \* the summaries of the current response not yet folded
    aggregated,   \* local aggregated: the OrderedDict, as its entries in order
    result,       \* the collection the call returned (when pc = "done")
    log,          \* the search client's calls so far and what each answered
    inflight,     \* search requests sent and not yet answered
    opened,       \* httpx clients this call created
    closed,       \* close() calls on the session this call created
    callerClosed, \* close() calls on the caller's client
    flattened,    \* what the caller's flatten_aggregated calls returned, in order
    calls,        \* calls of fetch_case_summaries that ended before this one
    previous,     \* the first of them: its queries and what it returned
    twins,        \* two generations of build_windows for the same arguments
    cli           \* a command-line program resolving its --class-code options

inputs == <<start, end, span_days, today, class_codes, client, raw_case>>
sweepVars == <<own_client, window, ci, pending, aggregated, result, log,
               inflight, opened, closed, callerClosed>>
callerVars == <<flattened, calls, previous, twins, cli>>
vars == <<inputs, pc, gen, built, error, sweepVars, callerVars>>

-----------------------------------------------------------------------------
(* datetime's limits *)

\* date.min.toordinal() and date.max.toordinal()
DateMin == 1
DateMax == 3652059
\* timedelta(days=n) raises OverflowError when |n| exceeds this
TimedeltaMaxDays == 999999999
\* date(2025, 1, 1).toordinal(): the CLI's default start
Jan1_2025 == 739252

\* None, for the optional end argument
NoDate == DateMin - 1

Min(a, b) == IF a <= b THEN a ELSE b

-----------------------------------------------------------------------------
(* Bounds of the model *)

\* SpecWindows draws start and end from NumDays consecutive days from
\* 2025-01-01 (and from the last two days date can represent)
NumDays == 10
\* ... and span_days from -1..MaxSpan (and two very large spans)
MaxSpan == 7
\* a span that carries 2025 past date.max
BigSpan == 3000000
\* the service answers one query with at most MaxRows rows ...
MaxRows == 2
\* ... and all the queries of one sweep with at most MaxTotalRows rows
MaxTotalRows == 3
\* SpecIdentity answers its one query with at most MaxIdentityRows rows
MaxIdentityRows == 3
\* SpecResolve resolves selections of at most MaxSelected class codes
MaxSelected == 2
\* SpecTwins lets the date change MaxMidnights times while it runs
MaxMidnights == 1
\* SpecTwoCalls lets the caller call again MaxRecalls times
MaxRecalls == 2
\* SpecFlatten flattens collections folded from at most MaxFolded rows,
\* at most MaxFlattenCalls times each
MaxFolded == 3
MaxFlattenCalls == 2
\* SpecNormalize draws filingDate from all the strings of at most
\* MaxDateLen characters over DateAlphabet (and from PortalDates)
MaxDateLen == 4

-----------------------------------------------------------------------------
(* utils.iter_windows and scraper.build_windows, as one generator          *)

GenCreated == [st |-> "created", current |-> NoDate, window_end |-> NoDate,
               end_date |-> NoDate]

Yield(cur, wend, end_date) ==
    [kind |-> "yield", err |-> "none", win |-> <<cur, wend>>,
     gen |-> [st |-> "suspended", current |-> cur, window_end |-> wend,
              end_date |-> end_date]]

Stop(g) ==
    [kind |-> "stop", err |-> "none", win |-> <<NoDate, NoDate>>,
     gen |-> [g EXCEPT !.st = "finished"]]

Raise(g, e) ==
    [kind |-> "raise", err |-> e, win |-> <<NoDate, NoDate>>,
     gen |-> [g EXCEPT !.st = "finished"]]

\* utils.py 33-35: the loop test, the clipped window end and the yield.
\* current + delta is computed before min() clips it, and date.__add__
\* raises OverflowError when the sum is past date.max.
WhileCurrent(g, cur, end_date, span) ==
    IF cur <= end_date
    THEN IF cur + (span - 1) > DateMax
         THEN Raise(g, "OverflowError")
         ELSE Yield(cur, Min(cur + (span - 1), end_date), end_date)
    ELSE Stop(g)

\* A generator that rejects only negative spans: span 0 reaches the loop
BuildWindowsResume_AcceptsZeroSpan(g, s, e, span, tdy) ==
    CASE g.st = "created" ->
            LET end_date == IF e = NoDate THEN tdy ELSE e
            IN  IF span < 0 THEN Raise(g, "ValueError")
                ELSE IF span - 1 > TimedeltaMaxDays THEN Raise(g, "OverflowError")
                ELSE WhileCurrent(g, s, end_date, span)
      [] g.st = "suspended" ->
            IF g.window_end + 1 > DateMax
            THEN Raise(g, "OverflowError")
            ELSE WhileCurrent(g, g.window_end + 1, g.end_date, span)
      [] OTHER -> Stop(g)

\* A generator that asks for today's date at every resumption
BuildWindowsResume_ReadsClockEachTime(g, s, e, span, tdy) ==
    CASE g.st = "created" ->
            LET end_date == IF e = NoDate THEN tdy ELSE e
            IN  IF span < 1 THEN Raise(g, "ValueError")
                ELSE IF span - 1 > TimedeltaMaxDays THEN Raise(g, "OverflowError")
                ELSE WhileCurrent(g, s, end_date, span)
      [] g.st = "suspended" ->
            IF g.window_end + 1 > DateMax
            THEN Raise(g, "OverflowError")
            ELSE WhileCurrent(g, g.window_end + 1,
                              IF e = NoDate THEN tdy ELSE g.end_date, span)
      [] OTHER -> Stop(g)

\* One next() on the generator build_windows(start=s, end=e, span_days=span).
\* First resumption: scraper.py 21 (end or date.today()), utils.py 26-31
\* (the span check, timedelta(days=span_days - 1)), then the loop.
\* Later resumptions: utils.py 36 (current = window_end + one_day), the loop.
BuildWindowsResume(g, s, e, span, tdy) ==
    CASE g.st = "created" ->
            LET end_date == IF e = NoDate THEN tdy ELSE e
            IN  IF span < 1 THEN Raise(g, "ValueError")
                ELSE IF span - 1 > TimedeltaMaxDays THEN Raise(g, "OverflowError")
                ELSE WhileCurrent(g, s, end_date, span)
      [] g.st = "suspended" ->
            IF g.window_end + 1 > DateMax
            THEN Raise(g, "OverflowError")
            ELSE WhileCurrent(g, g.window_end + 1, g.end_date, span)
      [] OTHER -> Stop(g)

-----------------------------------------------------------------------------
(* JSON values of a response payload, and Python's view of them.           *)
(* A string is the sequence of its characters; text that is only compared  *)
(* or tested for emptiness, never parsed, is written as one piece.         *)

JAbsent  == [tag |-> "absent", str |-> <<>>, num |-> 0]   \* the key is missing
JNull    == [tag |-> "null", str |-> <<>>, num |-> 0]
JStr(cs) == [tag |-> "str", str |-> cs, num |-> 0]
JNum(n)  == [tag |-> "num", str |-> <<>>, num |-> n]
JBool(b) == [tag |-> "bool", str |-> <<>>, num |-> IF b THEN 1 ELSE 0]

\* bool(v)
Truthy(v) ==
    CASE v.tag = "str" -> Len(v.str) > 0
      [] v.tag \in {"num", "bool"} -> v.num # 0
      [] OTHER -> FALSE

\* payload.get(key) and payload.get(key, default), given payload[key] or JAbsent
Get(v) == IF v.tag = "absent" THEN JNull ELSE v
GetOr(v, default) == IF v.tag = "absent" THEN default ELSE v

DigitChars == <<"0", "1", "2", "3", "4", "5", "6", "7", "8", "9">>
IsDigit(c) == \E i \in 1..Len(DigitChars) : DigitChars[i] = c
DigitVal(c) == (CHOOSE i \in 1..Len(DigitChars) : DigitChars[i] = c) - 1

RECURSIVE StripLeft(_)
StripLeft(cs) ==
    IF cs # <<>> /\ Head(cs) = " " THEN StripLeft(Tail(cs)) ELSE cs

RECURSIVE StripRight(_)
StripRight(cs) ==
    IF cs # <<>> /\ cs[Len(cs)] = " "
    THEN StripRight(SubSeq(cs, 1, Len(cs) - 1))
    ELSE cs

\* The value of a run of digits in which single underscores may separate digits
RECURSIVE DigitsValue(_, _)
DigitsValue(cs, acc) ==
    IF cs = <<>> THEN acc
    ELSE IF Head(cs) = "_" THEN DigitsValue(Tail(cs), acc)
    ELSE DigitsValue(Tail(cs), acc * 10 + DigitVal(Head(cs)))

IsIntBody(cs) ==
    /\ cs # <<>>
    /\ IsDigit(cs[1])
    /\ IsDigit(cs[Len(cs)])
    /\ \A i \in 1..Len(cs) : IsDigit(cs[i]) \/ cs[i] = "_"
    /\ \A i \in 1..(Len(cs) - 1) : ~(cs[i] = "_" /\ cs[i + 1] = "_")

\* int(s) of a str: surrounding blanks and one sign are allowed
IntOfStr(cs) ==
    LET t == StripRight(StripLeft(cs))
        signed == t # <<>> /\ Head(t) \in {"+", "-"}
        body == IF signed THEN Tail(t) ELSE t
    IN  IF IsIntBody(body)
        THEN [ok |-> TRUE,
              val |-> IF signed /\ Head(t) = "-"
                      THEN 0 - DigitsValue(body, 0) ELSE DigitsValue(body, 0)]
        ELSE [ok |-> FALSE, val |-> 0]

\* s.split(sep) of a str
RECURSIVE SplitAcc(_, _, _, _)
SplitAcc(cs, sep, part, parts) ==
    IF cs = <<>> THEN Append(parts, part)
    ELSE IF Head(cs) = sep THEN SplitAcc(Tail(cs), sep, <<>>, Append(parts, part))
    ELSE SplitAcc(Tail(cs), sep, Append(part, Head(cs)), parts)

Split(cs, sep) == SplitAcc(cs, sep, <<>>, <<>>)

-----------------------------------------------------------------------------
(* utils.parse_date                                                        *)

NoFiling == [y |-> 0, m |-> 0, d |-> 0]   \* filing_date is None

IsLeap(y) == (y % 4 = 0 /\ y % 100 # 0) \/ y % 400 = 0
DaysInMonth(y, m) ==
    CASE m = 2 -> IF IsLeap(y) THEN 29 ELSE 28
      [] m \in {4, 6, 9, 11} -> 30
      [] OTHER -> 31

\* date(y, m, d) raises ValueError outside these
IsDate(y, m, d) ==
    /\ y \in 1..9999
    /\ m \in 1..12
    /\ d >= 1 /\ d <= DaysInMonth(y, m)

DateOf(y, m, d) ==
    IF IsDate(y, m, d) THEN [err |-> "none", date |-> [y |-> y, m |-> m, d |-> d]]
    ELSE [err |-> "ValueError", date |-> NoFiling]

\* parse_date(value), value being payload.get("filingDate")
ParseDate(v) ==
    IF ~Truthy(v) THEN [err |-> "none", date |-> NoFiling]
    ELSE IF v.tag # "str" THEN [err |-> "AttributeError", date |-> NoFiling]
    ELSE LET parts == Split(v.str, "-")
             ints == [i \in 1..Len(parts) |-> IntOfStr(parts[i])]
         IN  IF Len(parts) \in {2, 3}
             THEN IF \E i \in 1..Len(parts) : ~ints[i].ok
                  THEN [err |-> "ValueError", date |-> NoFiling]
                  ELSE DateOf(ints[1].val, ints[2].val,
                              IF Len(parts) = 3 THEN ints[3].val ELSE 1)
             ELSE [err |-> "ValueError", date |-> NoFiling]

-----------------------------------------------------------------------------
(* models.CaseSummary.from_api                                             *)

NoCode == <<>>
NoSummary ==
    [case_no |-> JNull, caption |-> JNull, county_name |-> JNull, county_no |-> 0,
     party_name |-> JNull, status |-> JNull, filing_date |-> NoFiling,
     class_code |-> NoCode, dob |-> JNull, is_dob_sealed |-> FALSE,
     raw |-> [caseNo |-> JAbsent, caption |-> JAbsent, countyName |-> JAbsent,
              countyNo |-> JAbsent, partyName |-> JAbsent, status |-> JAbsent,
              filingDate |-> JAbsent, dob |-> JAbsent, isDobSealed |-> JAbsent]]

\* int(payload.get("countyNo", 0) or 0)
CountyNo(v) ==
    LET x == GetOr(v, JNum(0))
    IN  IF ~Truthy(x) THEN [ok |-> TRUE, val |-> 0]
        ELSE IF x.tag = "str" THEN IntOfStr(x.str)
        ELSE [ok |-> TRUE, val |-> x.num]

\* from_api reading the case number with payload.get("caseNo"): a row
\* without the key gives a summary whose case_no is None
FromApi_GetsCaseNo(payload, class_code) ==
    LET filing == ParseDate(Get(payload.filingDate))
        county == CountyNo(payload.countyNo)
    IN  IF filing.err # "none" THEN [err |-> filing.err, summary |-> NoSummary]
        ELSE IF ~county.ok THEN [err |-> "ValueError", summary |-> NoSummary]
        ELSE [err |-> "none",
              summary |->
                [case_no |-> Get(payload.caseNo),
                 caption |-> GetOr(payload.caption, JStr(<<>>)),
                 county_name |-> GetOr(payload.countyName, JStr(<<>>)),
                 county_no |-> county.val,
                 party_name |-> GetOr(payload.partyName, JStr(<<>>)),
                 status |-> GetOr(payload.status, JStr(<<>>)),
                 filing_date |-> filing.date,
                 class_code |-> class_code,
                 dob |-> Get(payload.dob),
                 is_dob_sealed |-> Truthy(Get(payload.isDobSealed)),
                 raw |-> payload]]

\* CaseSummary.from_api(payload, class_code): the summary, or the exception.
\* Line 44 (the date) runs before line 46 (payload["caseNo"]) and line 49.
FromApi(payload, class_code) ==
    LET filing == ParseDate(Get(payload.filingDate))
        county == CountyNo(payload.countyNo)
    IN  IF filing.err # "none" THEN [err |-> filing.err, summary |-> NoSummary]
        ELSE IF payload.caseNo.tag = "absent"
        THEN [err |-> "KeyError", summary |-> NoSummary]
        ELSE IF ~county.ok THEN [err |-> "ValueError", summary |-> NoSummary]
        ELSE [err |-> "none",
              summary |->
                [case_no |-> payload.caseNo,
                 caption |-> GetOr(payload.caption, JStr(<<>>)),
                 county_name |-> GetOr(payload.countyName, JStr(<<>>)),
                 county_no |-> county.val,
                 party_name |-> GetOr(payload.partyName, JStr(<<>>)),
                 status |-> GetOr(payload.status, JStr(<<>>)),
                 filing_date |-> filing.date,
                 class_code |-> class_code,
                 dob |-> Get(payload.dob),
                 is_dob_sealed |-> Truthy(Get(payload.isDobSealed)),
                 raw |-> payload]]

-----------------------------------------------------------------------------
(* Class codes: a code is the sequence of its digits, so that sorted()     *)
(* orders codes as Python orders str, lexicographically.                   *)

Code50111 == <<5, 0, 1, 1, 1>>
Code50101 == <<5, 0, 1, 0, 1>>

RECURSIVE LexLess(_, _)
LexLess(a, b) ==
    IF b = <<>> THEN FALSE
    ELSE IF a = <<>> THEN TRUE
    ELSE IF Head(a) # Head(b) THEN Head(a) < Head(b)
    ELSE LexLess(Tail(a), Tail(b))

\* sorted(codes, reverse=True)
RECURSIVE Sorted_Descending(_)
Sorted_Descending(codes) ==
    IF codes = {} THEN <<>>
    ELSE LET most == CHOOSE c \in codes : \A o \in codes \ {c} : LexLess(o, c)
         IN  <<most>> \o Sorted_Descending(codes \ {most})

\* sorted(codes) of a set of str
RECURSIVE Sorted(_)
Sorted(codes) ==
    IF codes = {} THEN <<>>
    ELSE LET least == CHOOSE c \in codes : \A o \in codes \ {c} : LexLess(c, o)
         IN  <<least>> \o Sorted(codes \ {least})

-----------------------------------------------------------------------------
(* client.WICourtClient.advanced_case_search                               *)

\* The search swallowing a failed request: it answers no rows
AdvancedCaseSearch_SwallowsFailure(resp, class_code) ==
    CASE resp.kind \in {"http_error", "no_result"} -> [err |-> "none", summaries |-> <<>>]
      [] OTHER ->
            LET norm == [i \in 1..Len(resp.rows) |-> FromApi(resp.rows[i], class_code)]
                bad == {i \in 1..Len(resp.rows) : norm[i].err # "none"}
            IN  IF bad = {}
                THEN [err |-> "none",
                      summaries |-> [i \in 1..Len(resp.rows) |-> norm[i].summary]]
                ELSE [err |-> norm[CHOOSE i \in bad : \A j \in bad : i <= j].err,
                      summaries |-> <<>>]

\* A search that leaves out the rows from_api cannot normalise
AdvancedCaseSearch_DropsBadRows(resp, class_code) ==
    CASE resp.kind = "http_error" -> [err |-> "HTTPError", summaries |-> <<>>]
      [] resp.kind = "no_result" -> [err |-> "none", summaries |-> <<>>]
      [] OTHER ->
            LET norm == [i \in 1..Len(resp.rows) |-> FromApi(resp.rows[i], class_code)]
                good == SelectSeq(norm, LAMBDA r : r.err = "none")
            IN  [err |-> "none",
                 summaries |-> [i \in 1..Len(good) |-> good[i].summary]]

\* Lines 47-54: what the call returns or raises, given what the service
\* answered: the request failing or answering a non-2xx status
\* ("http_error"), a body without a result ("no_result"), or case rows.
\* The list comprehension of line 54 stops at the first row that raises.
AdvancedCaseSearch(resp, class_code) ==
    CASE resp.kind = "http_error" -> [err |-> "HTTPError", summaries |-> <<>>]
      [] resp.kind = "no_result" -> [err |-> "none", summaries |-> <<>>]
      [] OTHER ->
            LET norm == [i \in 1..Len(resp.rows) |-> FromApi(resp.rows[i], class_code)]
                bad == {i \in 1..Len(resp.rows) : norm[i].err # "none"}
            IN  IF bad = {}
                THEN [err |-> "none",
                      summaries |-> [i \in 1..Len(resp.rows) |-> norm[i].summary]]
                ELSE [err |-> norm[CHOOSE i \in bad : \A j \in bad : i <= j].err,
                      summaries |-> <<>>]

-----------------------------------------------------------------------------
(* scraper.fetch_case_summaries: the fold of one summary, lines 45-48      *)

\* The key made of the case number alone: the county is not told apart
KeyOf_CaseNoOnly(summary) == <<summary.case_no, 0>>

\* Line 45: key = (summary.case_no, summary.county_no)
KeyOf(summary) == <<summary.case_no, summary.county_no>>

HasKey(agg, key) == \E i \in 1..Len(agg) : agg[i].key = key

\* The fold without its membership test: every row makes a fresh entry
Fold_AlwaysAssigns(agg, summary, code) ==
    LET key == KeyOf(summary)
        fresh == [key |-> key, summary |-> summary, class_codes |-> {code}]
    IN  IF HasKey(agg, key)
        THEN [i \in 1..Len(agg) |-> IF agg[i].key = key THEN fresh ELSE agg[i]]
        ELSE Append(agg, fresh)

\* The fold keeping the latest summary of a key instead of the first
Fold_LastWins(agg, summary, code) ==
    LET key == KeyOf(summary)
        with == IF HasKey(agg, key) THEN agg
                ELSE Append(agg, [key |-> key, summary |-> summary, class_codes |-> {}])
    IN  [i \in 1..Len(with) |->
            IF with[i].key = key
            THEN [with[i] EXCEPT !.summary = summary, !.class_codes = @ \cup {code}]
            ELSE with[i]]

\* The fold moving a key seen again to the end, as OrderedDict.move_to_end
Fold_MovesToEnd(agg, summary, code) ==
    LET key == KeyOf(summary)
        others == SelectSeq(agg, LAMBDA e : e.key # key)
        mine == SelectSeq(agg, LAMBDA e : e.key = key)
        entry == IF mine = <<>>
                 THEN [key |-> key, summary |-> summary, class_codes |-> {code}]
                 ELSE [mine[1] EXCEPT !.class_codes = @ \cup {code}]
    IN  Append(others, entry)

\* The fold adding the class code only to an entry that was there before
Fold_NoCodeForNewEntry(agg, summary, code) ==
    LET key == KeyOf(summary)
    IN  IF HasKey(agg, key)
        THEN [i \in 1..Len(agg) |->
                IF agg[i].key = key
                THEN [agg[i] EXCEPT !.class_codes = @ \cup {code}]
                ELSE agg[i]]
        ELSE Append(agg, [key |-> key, summary |-> summary, class_codes |-> {}])

\* aggregated[key] = AggregatedCase(summary=summary) when the key is new,
\* then aggregated[key].add_class_code(code)
Fold(agg, summary, code) ==
    LET key == KeyOf(summary)
        with == IF HasKey(agg, key) THEN agg
                ELSE Append(agg, [key |-> key, summary |-> summary, class_codes |-> {}])
    IN  [i \in 1..Len(with) |->
            IF with[i].key = key
            THEN [with[i] EXCEPT !.class_codes = @ \cup {code}]
            ELSE with[i]]

\* The loop test with the last class code left out
CodesLeft_SkipsLast(i, codes) == i < Len(codes)

\* The test of the loop over class_codes (line 42): is there a code at ci?
CodesLeft(i, codes) == i <= Len(codes)

-----------------------------------------------------------------------------
(* scraper.flatten_aggregated                                              *)

RECURSIVE DigitsOf(_, _)
\* n written in decimal, zero-padded to width digits
DigitsOf(n, width) ==
    IF width = 0 THEN <<>>
    ELSE DigitsOf(n \div 10, width - 1) \o <<DigitChars[(n % 10) + 1]>>

\* date.isoformat(): YYYY-MM-DD
IsoFormat(d) ==
    JStr(DigitsOf(d.y, 4) \o <<"-">> \o DigitsOf(d.m, 2) \o <<"-">> \o DigitsOf(d.d, 2))

\* A record whose date is written without zero padding
FlattenItem_UnpaddedDate(item) ==
    [case_no |-> item.summary.case_no,
     county_no |-> item.summary.county_no,
     county_name |-> item.summary.county_name,
     caption |-> item.summary.caption,
     party_name |-> item.summary.party_name,
     status |-> item.summary.status,
     filing_date |-> IF item.summary.filing_date # NoFiling
                     THEN JStr(DigitsOf(item.summary.filing_date.y, 4) \o <<"-">>
                               \o DigitsOf(item.summary.filing_date.m, 1) \o <<"-">>
                               \o DigitsOf(item.summary.filing_date.d, 2))
                     ELSE JNull,
     dob |-> item.summary.dob,
     is_dob_sealed |-> item.summary.is_dob_sealed,
     class_codes |-> Sorted(item.class_codes),
     raw |-> item.summary.raw]

\* scraper.py 59-73: the record of one entry
FlattenItem(item) ==
    [case_no |-> item.summary.case_no,
     county_no |-> item.summary.county_no,
     county_name |-> item.summary.county_name,
     caption |-> item.summary.caption,
     party_name |-> item.summary.party_name,
     status |-> item.summary.status,
     filing_date |-> IF item.summary.filing_date # NoFiling
                     THEN IsoFormat(item.summary.filing_date) ELSE JNull,
     dob |-> item.summary.dob,
     is_dob_sealed |-> item.summary.is_dob_sealed,
     class_codes |-> Sorted(item.class_codes),
     raw |-> item.summary.raw]

\* A flatten that calls isoformat() whether or not there is a date
FlattenRaises_NoDateGuard(data) ==
    IF \E i \in 1..Len(data) : "y" \notin DOMAIN data[i].summary.filing_date
                                 \/ data[i].summary.filing_date = NoFiling
    THEN "AttributeError" ELSE "none"

\* scraper.py 59: the exception flatten_aggregated leaves with, "none" when
\* it returns: a filing_date that is truthy and is not a date has no
\* isoformat()
FlattenRaises(data) ==
    IF \E i \in 1..Len(data) : "y" \notin DOMAIN data[i].summary.filing_date
    THEN "AttributeError" ELSE "none"

\* The records in reverse order of insertion
FlattenAggregated_Reversed(data) ==
    [i \in 1..Len(data) |-> FlattenItem(data[Len(data) + 1 - i])]

FlattenAggregated(data) == [i \in 1..Len(data) |-> FlattenItem(data[i])]

\* The caller has not done anything yet with what the calls return
NoCall == [log |-> <<>>, result |-> <<>>, returned |-> FALSE]

\* No program is resolving class codes
NoCli == [program |-> "none", selected |-> <<>>, resolved |-> <<>>,
          exit |-> "none", at |-> "idle"]

\* A generator that has not been resumed, and what its consumer has of it
NewTwin == [gen |-> GenCreated, built |-> <<>>, error |-> "none", day |-> NoDate]

CallerInit ==
    /\ flattened = <<>>
    /\ calls = 0
    /\ previous = NoCall
    /\ twins = <<NewTwin, NewTwin>>
    /\ cli = NoCli

\* The locals of fetch_case_summaries before the call has run
SweepLocalsInit ==
    /\ own_client = FALSE
    /\ window = <<NoDate, NoDate>>
    /\ ci = 1
    /\ pending = <<>>
    /\ aggregated = <<>>
    /\ result = <<>>
    /\ log = <<>>
    /\ inflight = 0
    /\ opened = 0
    /\ closed = 0
    /\ callerClosed = 0

-----------------------------------------------------------------------------
(* Spec: one call of fetch_case_summaries against a search service that    *)
(* answers each query as it likes                                          *)

Chars2025_03_15 == <<"2", "0", "2", "5", "-", "0", "3", "-", "1", "5">>
Chars2025_03 == <<"2", "0", "2", "5", "-", "0", "3">>

Row(caseNo, countyNo, caption, filingDate) ==
    [caseNo |-> caseNo, caption |-> caption,
     countyName |-> JStr(<<"Winnebago">>), countyNo |-> countyNo,
     partyName |-> JStr(<<"Doe, John">>), status |-> JStr(<<"Open">>),
     filingDate |-> filingDate, dob |-> JAbsent, isDobSealed |-> JBool(FALSE)]

\* The sound rows the service may return: one case under two captions, and
\* the same case number without a county
RowA == Row(JStr(<<"2025CV000123">>), JNum(71), JStr(<<"Estate of A">>), JStr(Chars2025_03_15))
RowB == Row(JStr(<<"2025CV000123">>), JNum(71), JStr(<<"Estate of B">>), JStr(Chars2025_03))
RowC == Row(JStr(<<"2025CV000123">>), JAbsent, JStr(<<"Estate of C">>), JAbsent)
RawRows == {RowA, RowB, RowC}

\* No row: from_api is not being called
NoPayload == Row(JAbsent, JAbsent, JAbsent, JAbsent)

\* A row without a case number, a row whose filing date is 03/15/2025, and
\* the answers that hold one of them
RowNoCaseNo == Row(JAbsent, JNum(71), JStr(<<"Estate of D">>), JAbsent)
Chars03_15_2025 == <<"0", "3", "/", "1", "5", "/", "2", "0", "2", "5">>
RowBadDate ==
    Row(JStr(<<"2025CV000456">>), JNum(71), JStr(<<"Estate of E">>), JStr(Chars03_15_2025))
BadAnswers ==
    {<<RowNoCaseNo>>, <<RowA, RowNoCaseNo>>, <<RowNoCaseNo, RowA>>,
     <<RowBadDate>>, <<RowA, RowBadDate>>}

CodeLists ==
    {<<>>, <<Code50111>>, <<Code50111, Code50101>>, <<Code50101, Code50111>>,
     <<Code50111, Code50111>>}

SeqsUpTo(S, n) == UNION {[1..k -> S] : k \in 1..n}

RECURSIVE RowsIn(_)
\* the rows the service has returned so far
RowsIn(l) == IF l = <<>> THEN 0 ELSE Len(Head(l).resp.rows) + RowsIn(Tail(l))

Pending == [kind |-> "pending", rows |-> <<>>]

Responses(budget) ==
    {[kind |-> "http_error", rows |-> <<>>], [kind |-> "no_result", rows |-> <<>>]}
    \cup {[kind |-> "cases", rows |-> rows] :
            rows \in SeqsUpTo(RawRows, Min(MaxRows, budget))
                     \cup {a \in BadAnswers : Len(a) <= Min(MaxRows, budget)}}

\* The sweeps of Spec start on 2025-01-01 and end the day before (no
\* window), the same day, or today, the day after (end is None); with the
\* spans 0 (invalid), 1 and 2 they have zero, one or two windows, and
\* with the two very large spans the arithmetic of iter_windows overflows
SweepEnds == {NoDate, Jan1_2025 - 1, Jan1_2025}
SweepSpans == {0, 1, 2, BigSpan, TimedeltaMaxDays + 2}

Init ==
    /\ start = Jan1_2025
    /\ end \in SweepEnds
    /\ today = start + 1
    /\ span_days \in SweepSpans
    /\ class_codes \in CodeLists
    /\ client \in {"caller", "none"}
    /\ raw_case = NoPayload
    /\ pc = "call"
    /\ gen = GenCreated
    /\ built = <<>>
    /\ error = "none"
    /\ SweepLocalsInit
    /\ CallerInit

\* The finally clause, lines 50-52: close the session if this call made it
Finally ==
    /\ closed' = IF own_client THEN closed + 1 ELSE closed
    /\ UNCHANGED callerClosed

\* An exception raised inside the try block leaves through the finally clause
RaiseInTry(e) ==
    /\ error' = e
    /\ pc' = "raised"
    /\ Finally

\* Lines 36-37: own_client = client is None; session = client or WICourtClient().
\* WICourtClient() creates the httpx client (client.py 18) and then sends the
\* bootstrap request (client.py 24, 28-29), which may fail; this is before
\* the try block.
Enter ==
    /\ pc = "call"
    /\ own_client' = (client = "none")
    /\ IF client = "none"
       THEN /\ opened' = opened + 1
            /\ \E bootstrapped \in BOOLEAN :
                 IF bootstrapped
                 THEN pc' = "for_window" /\ error' = error
                 ELSE pc' = "raised" /\ error' = "HTTPError"
       ELSE /\ opened' = opened
            /\ pc' = "for_window"
            /\ error' = error
    /\ UNCHANGED <<inputs, callerVars, gen, built, window, ci, pending, aggregated, result,
                   log, inflight, closed, callerClosed>>

\* Line 41: the for loop asks build_windows for the next window
NextWindow ==
    /\ pc = "for_window"
    /\ LET r == BuildWindowsResume(gen, start, end, span_days, today)
       IN  /\ gen' = r.gen
           /\ CASE r.kind = "yield" ->
                     /\ built' = Append(built, r.win)
                     /\ window' = r.win
                     /\ ci' = 1
                     /\ pc' = "for_code"
                     /\ UNCHANGED <<error, closed, callerClosed>>
                [] r.kind = "stop" ->
                     /\ pc' = "return"
                     /\ UNCHANGED <<built, window, ci, error, closed, callerClosed>>
                [] OTHER ->
                     /\ RaiseInTry(r.err)
                     /\ UNCHANGED <<built, window, ci>>
    /\ UNCHANGED <<inputs, callerVars, own_client, pending, aggregated, result, log, inflight,
                   opened>>

\* Lines 42-43: the next class code; the search request is sent
IssueQuery ==
    /\ pc = "for_code"
    /\ CodesLeft(ci, class_codes)
    /\ log' = Append(log, [window |-> window, code |-> class_codes[ci], resp |-> Pending])
    /\ inflight' = inflight + 1
    /\ pc' = "await"
    /\ UNCHANGED <<inputs, callerVars, gen, built, error, own_client, window, ci, pending,
                   aggregated, result, opened, closed, callerClosed>>

\* Line 42: the class codes are exhausted, back to the loop over windows
CodesExhausted ==
    /\ pc = "for_code"
    /\ ~CodesLeft(ci, class_codes)
    /\ pc' = "for_window"
    /\ UNCHANGED <<inputs, callerVars, gen, built, error, sweepVars>>

\* Line 43 and client.py 47-54: the service answers, advanced_case_search
\* returns the normalised rows or raises
Response ==
    /\ pc = "await"
    /\ \E resp \in Responses(MaxTotalRows - RowsIn(log)) :
         LET out == AdvancedCaseSearch(resp, class_codes[ci])
         IN  /\ log' = [log EXCEPT ![Len(log)].resp = resp]
             /\ inflight' = inflight - 1
             /\ IF out.err = "none"
                THEN /\ pending' = out.summaries
                     /\ pc' = "for_summary"
                     /\ UNCHANGED <<error, closed, callerClosed>>
                ELSE /\ RaiseInTry(out.err)
                     /\ UNCHANGED pending
    /\ UNCHANGED <<inputs, callerVars, gen, built, own_client, window, ci, aggregated, result,
                   opened>>

\* Lines 44-48: one summary is folded into aggregated
FoldRow ==
    /\ pc = "for_summary"
    /\ pending # <<>>
    /\ aggregated' = Fold(aggregated, Head(pending), class_codes[ci])
    /\ pending' = Tail(pending)
    /\ UNCHANGED <<inputs, callerVars, pc, gen, built, error, own_client, window, ci, result,
                   log, inflight, opened, closed, callerClosed>>

\* A sweep that goes on to the next class code while rows of the current
\* response are still to be folded
SummariesExhausted_LeavesRows ==
    /\ pc = "for_summary"
    /\ ci' = ci + 1
    /\ pc' = "for_code"
    /\ UNCHANGED <<inputs, callerVars, gen, built, error, own_client, window, pending,
                   aggregated, result, log, inflight, opened, closed, callerClosed>>

\* Line 44: the summaries are exhausted, on to the next class code
SummariesExhausted ==
    /\ pc = "for_summary"
    /\ pending = <<>>
    /\ ci' = ci + 1
    /\ pc' = "for_code"
    /\ UNCHANGED <<inputs, callerVars, gen, built, error, own_client, window, pending,
                   aggregated, result, log, inflight, opened, closed, callerClosed>>

\* Lines 49-52: return aggregated, through the finally clause
Return ==
    /\ pc = "return"
    /\ result' = aggregated
    /\ pc' = "done"
    /\ Finally
    /\ UNCHANGED <<inputs, callerVars, gen, built, error, own_client, window, ci, pending,
                   aggregated, log, inflight, opened>>

Next ==
    \/ Enter
    \/ NextWindow
    \/ IssueQuery
    \/ CodesExhausted
    \/ Response
    \/ FoldRow
    \/ SummariesExhausted
    \/ Return

Spec == Init /\ [][Next]_vars

-----------------------------------------------------------------------------
(* SpecDuplicates: the sweep of one single-day window whose class-code     *)
(* list names a code twice                                                 *)

DuplicateCodeLists ==
    {<<Code50111, Code50111>>, <<Code50111, Code50101, Code50111>>,
     <<Code50111, Code50101, Code50101>>}

InitDuplicates ==
    /\ start = Jan1_2025
    /\ end = start
    /\ today = start + 1
    /\ span_days = 1
    /\ class_codes \in DuplicateCodeLists
    /\ client \in {"caller", "none"}
    /\ raw_case = NoPayload
    /\ pc = "call"
    /\ gen = GenCreated
    /\ built = <<>>
    /\ error = "none"
    /\ SweepLocalsInit
    /\ CallerInit

SpecDuplicates == InitDuplicates /\ [][Next]_vars

-----------------------------------------------------------------------------
(* SpecNormalize: CaseSummary.from_api applied to one row of a response    *)

\* Filing dates as the portal writes them and as it might: full dates,
\* year-months, impossible dates, other separators and orders, unpadded,
\* blank-padded, signed and underscored numbers, trailing text
PortalDates ==
    {<<"2", "0", "2", "5", "-", "0", "3", "-", "1", "5">>,
     <<"2", "0", "2", "5", "-", "0", "3">>,
     <<"2", "0", "2", "4", "-", "0", "2", "-", "2", "9">>,
     <<"2", "0", "2", "5", "-", "0", "2", "-", "2", "9">>,
     <<"2", "0", "2", "5", "-", "1", "3">>,
     <<"2", "0", "2", "5", "-", "0", "0", "-", "1", "0">>,
     <<"0", "0", "0", "0", "-", "0", "1", "-", "0", "1">>,
     <<"1", "0", "0", "0", "0", "-", "0", "1", "-", "0", "1">>,
     <<"0", "3", "/", "1", "5", "/", "2", "0", "2", "5">>,
     <<"0", "3", "-", "1", "5", "-", "2", "0", "2", "5">>,
     <<"2", "0", "2", "5", "-", "3", "-", "5">>,
     <<"1", "5", "-", "0", "3">>,
     <<"2", "0", "2", "5">>,
     <<"2", "0", "2", "5", "-", "0", "3", "-", "1", "5", "-", "0", "1">>,
     <<" ", "2", "0", "2", "5", "-", "0", "3", "-", "1", "5">>,
     <<"2", "0", "2", "5", "-", "3", "-", " ", "5">>,
     <<"+", "2", "0", "2", "5", "-", "0", "3">>,
     <<"2", "0", "_", "2", "5", "-", "0", "3">>,
     <<"2", "0", "2", "5", "-", "0", "3", "-", "1", "x">>,
     <<"M", "a", "r", "c", "h", " ", "2", "0", "2", "5">>,
     <<"2", "0", "2", "5", "-", "0", "3", "-", "1", "5", "T", "0", "0", ":", "0", "0", ":", "0", "0">>,
     <<"2", "0", "2", "5", "-", "0", "3", "-">>,
     <<"-", "2", "0", "2", "5", "-", "0", "3">>}

DateAlphabet == {"1", "3", "-", "/"}

FilingDates ==
    {JAbsent, JNull, JStr(<<>>), JNum(20250315)}
    \cup {JStr(cs) : cs \in PortalDates \cup SeqsUpTo(DateAlphabet, MaxDateLen)}

CountyNos ==
    {JAbsent, JNull, JStr(<<>>), JNum(0), JNum(71), JStr(<<"7", "1">>),
     JStr(<<"a", "b", "c">>), JStr(<<"7", ".", "5">>)}

CaseNos == {JAbsent, JNull, JStr(<<>>), JStr(<<"2025CV000123">>)}

InitNormalize ==
    /\ raw_case \in {Row(caseNo, countyNo, JStr(<<"Estate of A">>), filingDate) :
                       caseNo \in CaseNos, countyNo \in CountyNos,
                       filingDate \in FilingDates}
    /\ class_codes = <<Code50111>>
    /\ start = Jan1_2025
    /\ end = Jan1_2025
    /\ span_days = 1
    /\ today = Jan1_2025
    /\ client = "caller"
    /\ pc = "from_api"
    /\ gen = GenCreated
    /\ built = <<>>
    /\ error = "none"
    /\ SweepLocalsInit
    /\ CallerInit

\* client.py 54: CaseSummary.from_api(item, class_code.code) for one item;
\* pending receives the summary when there is one
FromApiCall ==
    /\ pc = "from_api"
    /\ LET r == FromApi(raw_case, class_codes[1])
       IN  /\ error' = r.err
           /\ pending' = IF r.err = "none" THEN <<r.summary>> ELSE <<>>
           /\ pc' = IF r.err = "none" THEN "normalised" ELSE "raised"
    /\ UNCHANGED <<inputs, callerVars, gen, built, own_client, window, ci, aggregated, result,
                   log, inflight, opened, closed, callerClosed>>

NextNormalize == FromApiCall

SpecNormalize == InitNormalize /\ [][NextNormalize]_vars

-----------------------------------------------------------------------------
(* SpecWindows: a caller iterating build_windows to exhaustion             *)

\* start and end are both days of early 2025 (end may be None), or both
\* among the last two days date can represent
Days2025 == Jan1_2025 .. (Jan1_2025 + NumDays - 1)
LastDays == {DateMax - 1, DateMax}
WinSpans == (-1 .. MaxSpan) \cup {BigSpan, TimedeltaMaxDays + 2}

InitWindows ==
    /\ \/ start \in Days2025 /\ end \in Days2025 \cup {NoDate}
       \/ start \in LastDays /\ end \in LastDays
    /\ span_days \in WinSpans
    /\ today = Jan1_2025 + NumDays - 1
    /\ pc = "iterating"
    /\ gen = GenCreated
    /\ built = <<>>
    /\ error = "none"
    /\ class_codes = <<>>
    /\ client = "caller"
    /\ raw_case = NoPayload
    /\ SweepLocalsInit
    /\ CallerInit

\* for window_start, window_end in build_windows(...): one next()
ConsumeWindow ==
    /\ pc = "iterating"
    /\ LET r == BuildWindowsResume(gen, start, end, span_days, today)
       IN  /\ gen' = r.gen
           /\ built' = IF r.kind = "yield" THEN Append(built, r.win) ELSE built
           /\ error' = r.err
           /\ pc' = CASE r.kind = "yield" -> "iterating"
                      [] r.kind = "stop" -> "exhausted"
                      [] OTHER -> "raised"
    /\ UNCHANGED <<inputs, callerVars, sweepVars>>

NextWindows == ConsumeWindow

SpecWindows == InitWindows /\ [][NextWindows]_vars

-----------------------------------------------------------------------------
(* What the claims speak of                                                *)

\* The end the windows run to: end, or today when end is None
EndDate == IF end = NoDate THEN today ELSE end

\* The call has ended: the iteration of SpecWindows, or the sweep of Spec
Ended == pc \in {"exhausted", "raised", "done"}

\* The days of a window, and its length in days
DaysOf(w) == w[1] .. w[2]
DaysIn(w) == w[2] - w[1] + 1

\* The windows the contract describes for start..EndDate, in closed form:
\* the k-th window starts (k - 1) * span_days days after start
ExpectedWindows ==
    LET n == EndDate - start + 1
        count == IF span_days < 1 \/ n < 1 THEN 0 ELSE (n + span_days - 1) \div span_days
    IN  [k \in 1..count |->
            <<start + (k - 1) * span_days, Min(start + k * span_days - 1, EndDate)>>]

IsPrefix(a, b) == Len(a) <= Len(b) /\ a = SubSeq(b, 1, Len(a))

\* The windows cover start..EndDate: ordered, contiguous, disjoint, exact
CoversRange(ws) ==
    /\ Len(ws) >= 1
    /\ ws[1][1] = start
    /\ ws[Len(ws)][2] = EndDate
    /\ \A i \in 2..Len(ws) : ws[i][1] = ws[i - 1][2] + 1
    /\ \A i, j \in 1..Len(ws) :
          i < j => /\ ws[i][1] < ws[j][1]
                   /\ ws[i][2] <= ws[j][2]
                   /\ DaysOf(ws[i]) \cap DaysOf(ws[j]) = {}
    /\ UNION {DaysOf(ws[i]) : i \in 1..Len(ws)} = start .. EndDate

\* Every window but the last has span_days days, the last 1..span_days
SpansExact(ws) ==
    /\ \A i \in 1..(Len(ws) - 1) : DaysIn(ws[i]) = span_days
    /\ Len(ws) >= 1 => DaysIn(ws[Len(ws)]) \in 1..span_days

-----------------------------------------------------------------------------
(* The claims                                                              *)

\* C1: for every start <= end and span_days >= 1 the generator runs to
\* exhaustion and its windows have strictly increasing starts and
\* non-decreasing ends, share no day, run from start to end without a gap:
\* their union is exactly [start, end].
C1_WindowsCoverRange ==
    (Ended /\ gen.st # "created" /\ start <= EndDate /\ span_days >= 1)
        => (error = "none" /\ CoversRange(built))

\* C1, away from the limits of date and timedelta: the same statement for
\* the inputs with EndDate + span_days <= date.max
C1_WindowsCoverRangeBelowDateMax ==
    (Ended /\ gen.st # "created" /\ start <= EndDate /\ span_days >= 1
           /\ EndDate + span_days <= DateMax)
        => (error = "none" /\ CoversRange(built))

\* C2: for every start <= end and span_days >= 1 every window but the last
\* covers exactly span_days days and the last covers 1..span_days days and
\* ends at end; span_days = 1 gives (end - start).days + 1 single-day
\* windows; 2025-01-01..2025-01-10 with span 7 gives [01-01, 01-07] and
\* [01-08, 01-10].
C2_WindowSpans ==
    (Ended /\ gen.st # "created" /\ start <= EndDate /\ span_days >= 1)
        => /\ error = "none"
           /\ Len(built) >= 1
           /\ SpansExact(built)
           /\ built[Len(built)][2] = EndDate
           /\ span_days = 1 =>
                 /\ Len(built) = EndDate - start + 1
                 /\ \A i \in 1..Len(built) : built[i][1] = built[i][2]
           /\ (start = Jan1_2025 /\ EndDate = Jan1_2025 + 9 /\ span_days = 7) =>
                 built = << <<Jan1_2025, Jan1_2025 + 6>>,
                            <<Jan1_2025 + 7, Jan1_2025 + 9>> >>

\* C2, away from the limits of date and timedelta
C2_WindowSpansBelowDateMax ==
    (EndDate + span_days <= DateMax) => C2_WindowSpans

\* C3: the search client is queried once per (window, class code) pair in
\* window-major, class-code-minor order, the windows in ascending order: at
\* every point the queries sent are a prefix of that enumeration, and a
\* sweep that returns has sent all of it.
QueriesSent == [i \in 1..Len(log) |-> <<log[i].window, log[i].code>>]

RECURSIVE PairsOf(_, _)
PairsOf(ws, codes) ==
    IF ws = <<>> THEN <<>>
    ELSE [i \in 1..Len(codes) |-> <<Head(ws), codes[i]>>] \o PairsOf(Tail(ws), codes)

C3_QueryOrder ==
    /\ IsPrefix(QueriesSent, PairsOf(ExpectedWindows, class_codes))
    /\ pc = "done" => QueriesSent = PairsOf(ExpectedWindows, class_codes)

C3_Witness ==
    /\ pc = "done"
    /\ Len(ExpectedWindows) = 2
    /\ class_codes = <<Code50111, Code50101>>
    /\ Len(log) = 4

\* The rows the sweep has been given so far, normalised, in the order of
\* the queries and of the rows within each response, each with the class
\* code of its query
RECURSIVE Sightings(_)
Sightings(l) ==
    IF l = <<>> THEN <<>>
    ELSE LET q == l[Len(l)]
             out == AdvancedCaseSearch(q.resp, q.code)
         IN  Sightings(SubSeq(l, 1, Len(l) - 1))
             \o [i \in 1..Len(out.summaries) |->
                    [summary |-> out.summaries[i], code |-> q.code]]

\* The keys of a sequence of sightings, each at its first occurrence
RECURSIVE FirstSeen(_)
FirstSeen(ss) ==
    IF ss = <<>> THEN <<>>
    ELSE LET before == FirstSeen(SubSeq(ss, 1, Len(ss) - 1))
             key == KeyOf(ss[Len(ss)].summary)
         IN  IF \E i \in 1..Len(before) : before[i] = key THEN before
             ELSE Append(before, key)

KeysOf(agg) == [i \in 1..Len(agg) |-> agg[i].key]

\* C4: once an entry exists for a key its summary is never replaced or
\* changed by a later row; a later row only adds its class code, so an
\* entry's class_codes only grows and no entry is removed.
C4_SummaryNeverReplaced ==
    [][\A i \in 1..Len(aggregated) :
          \E j \in 1..Len(aggregated') :
             /\ aggregated'[j].key = aggregated[i].key
             /\ aggregated'[j].summary = aggregated[i].summary
             /\ aggregated[i].class_codes \subseteq aggregated'[j].class_codes]_vars

\* a second row of another caption has been folded into an existing entry
C4_Witness ==
    /\ pc = "for_summary"
    /\ pending = <<>>
    /\ Len(aggregated) = 1
    /\ Cardinality(aggregated[1].class_codes) = 2
    /\ \E i \in 1..Len(Sightings(log)) :
          /\ KeyOf(Sightings(log)[i].summary) = aggregated[1].key
          /\ Sightings(log)[i].summary.caption # aggregated[1].summary.caption

\* C5: first write wins: the summary of every entry of the returned
\* collection is the first row of its key in query order (window-major,
\* class-code-minor, then row order); a case returned under 50111 and later
\* under 50101 gives one entry with the 50111 row and both class codes.
C5_FirstWriteWins ==
    pc = "done" =>
        \A i \in 1..Len(result) :
            LET ss == Sightings(log)
                first == CHOOSE n \in 1..Len(ss) :
                            /\ KeyOf(ss[n].summary) = result[i].key
                            /\ \A m \in 1..(n - 1) : KeyOf(ss[m].summary) # result[i].key
            IN  /\ \E n \in 1..Len(ss) : KeyOf(ss[n].summary) = result[i].key
                /\ result[i].summary = ss[first].summary

C5_Witness ==
    /\ pc = "done"
    /\ class_codes = <<Code50111, Code50101>>
    /\ Len(log) = 2
    /\ Len(log[1].resp.rows) = 1 /\ Len(log[2].resp.rows) = 1
    /\ log[1].resp.rows[1].caption # log[2].resp.rows[1].caption
    /\ Len(result) = 1
    /\ result[1].key = <<JStr(<<"2025CV000123">>), 71>>
    /\ result[1].summary = FromApi(log[1].resp.rows[1], Code50111).summary
    /\ result[1].class_codes = {Code50101, Code50111}

\* C6: the returned collection iterates in the order in which each key was
\* first seen over the whole sweep (query order, then row order); a later
\* sighting of a key does not move it, and the order is not a sorted one.
C6_FirstSeenOrder ==
    pc = "done" => KeysOf(result) = FirstSeen(Sightings(log))

\* county 71 before county 0, and county 71 seen again after county 0
C6_Witness ==
    /\ pc = "done"
    /\ Len(result) = 2
    /\ result[1].key[2] = 71 /\ result[2].key[2] = 0
    /\ LET ss == Sightings(log)
       IN  Len(ss) = 3 /\ KeyOf(ss[3].summary) = result[1].key

\* C7: flatten_aggregated of the returned collection has exactly one record
\* per key that any query of the sweep returned, and each record's
\* class_codes is sorted ascending without repeats and is exactly the set
\* of the class codes whose queries returned a row of that key.
FlatKey(rec) == <<rec.case_no, rec.county_no>>

C7_FlattenRoundTrip ==
    pc = "done" =>
        LET flat == FlattenAggregated(result)
            ss == Sightings(log)
            seen == {KeyOf(ss[n].summary) : n \in 1..Len(ss)}
        IN  /\ {FlatKey(flat[i]) : i \in 1..Len(flat)} = seen
            /\ Len(flat) = Cardinality(seen)
            /\ \A i \in 1..Len(flat) :
                  LET cs == flat[i].class_codes
                  IN  /\ \A a, b \in 1..Len(cs) : a < b => LexLess(cs[a], cs[b])
                      /\ {cs[a] : a \in 1..Len(cs)} =
                            {ss[n].code : n \in {m \in 1..Len(ss) :
                                            KeyOf(ss[m].summary) = FlatKey(flat[i])}}

C7_Witness ==
    /\ pc = "done"
    /\ Len(FlattenAggregated(result)) = 2
    /\ FlattenAggregated(result)[1].class_codes = <<Code50101, Code50111>>
    /\ FlattenAggregated(result)[2].class_codes = <<Code50111>>

\* C8: flatten_aggregated gives one record per entry in the collection's
\* insertion order: the i-th record has the case_no and county_no of the
\* i-th key, for every collection the sweep builds.
C8_FlattenKeepsOrder ==
    LET flat == FlattenAggregated(aggregated)
    IN  /\ Len(flat) = Len(aggregated)
        /\ \A i \in 1..Len(flat) : FlatKey(flat[i]) = aggregated[i].key

C8_Witness ==
    /\ Len(aggregated) = 2
    /\ FlatKey(FlattenAggregated(aggregated)[1]) # FlatKey(FlattenAggregated(aggregated)[2])
    /\ FlatKey(FlattenAggregated(aggregated)[2]) = aggregated[2].key

\* C9: a failed query fails the whole call with that error: it is the last
\* query sent (not retried, none after it), the call has raised the error
\* and has returned no collection.
C9_QueryFailureAborts ==
    \A i \in 1..Len(log) :
        log[i].resp.kind = "http_error" =>
            /\ i = Len(log)
            /\ pc = "raised"
            /\ error = "HTTPError"
            /\ result = <<>>

\* the second of four queries failed after rows had been folded
C9_Witness ==
    /\ pc = "raised"
    /\ error = "HTTPError"
    /\ Len(PairsOf(ExpectedWindows, class_codes)) = 4
    /\ Len(log) = 2
    /\ log[2].resp.kind = "http_error"
    /\ aggregated # <<>>
    /\ result = <<>>

\* C10: every session the call opened itself is closed by the time the call
\* returns or raises, on every path.
C10_OwnSessionClosed ==
    pc \in {"done", "raised"} => closed = opened

\* C11: window generation with span_days < 1 fails with ValueError and
\* yields no window at all, whatever start and end are (start > end
\* included): no window is ever built, and the first resumption of the
\* generator raises ValueError.
C11_InvalidSpanNoWindows ==
    span_days < 1
        => /\ built = <<>>
           /\ gen.st # "created" => (pc = "raised" /\ error = "ValueError")

\* the generator has been resumed with span 0 and start after end
C11_Witness ==
    /\ span_days = 0
    /\ start > EndDate
    /\ gen.st # "created"
    /\ pc = "raised"
    /\ error = "ValueError"

\* C13: for every start > end and span_days >= 1 the generator yields no
\* window and raises no error: its first resumption exhausts it.
C13_EmptyWhenStartAfterEnd ==
    (start > EndDate /\ span_days >= 1)
        => /\ built = <<>>
           /\ error = "none"
           /\ gen.st # "created" => pc = "exhausted"

\* C13, within the range of timedelta: the same statement for the spans
\* with span_days - 1 <= timedelta.max.days
C13_EmptyWhenStartAfterEndWithinTimedelta ==
    (start > EndDate /\ span_days >= 1 /\ span_days - 1 <= TimedeltaMaxDays)
        => /\ built = <<>>
           /\ error = "none"
           /\ gen.st # "created" => pc = "exhausted"

\* a generator exhausted at its first resumption, start after end
C13_Witness ==
    /\ start > EndDate
    /\ span_days >= 1
    /\ pc = "exhausted"
    /\ built = <<>>

\* C12: fetch_case_summaries called with span_days < 1 ends in ValueError
\* and in nothing else: no search query is sent, no collection is returned,
\* whatever the other arguments are and whatever the service does.
C12_InvalidSpanFailsFirst ==
    span_days < 1
        => /\ log = <<>>
           /\ pc # "done"
           /\ pc = "raised" => error = "ValueError"

\* C12, for the calls that bring their own client: the same statement
C12_InvalidSpanFailsFirstWithCallerClient ==
    (span_days < 1 /\ client = "caller")
        => /\ log = <<>>
           /\ pc # "done"
           /\ pc = "raised" => error = "ValueError"

\* a call with span 0 has raised ValueError without a query
C12_Witness ==
    /\ span_days < 1
    /\ pc = "raised"
    /\ error = "ValueError"
    /\ log = <<>>

\* The collection a sweep builds from a sequence of sightings
RECURSIVE FoldAll(_)
FoldAll(ss) ==
    IF ss = <<>> THEN <<>>
    ELSE Fold(FoldAll(SubSeq(ss, 1, Len(ss) - 1)),
              ss[Len(ss)].summary, ss[Len(ss)].code)

\* The returned collection is the fold of the rows the queries returned
SweepIsFoldOfLog == pc = "done" => result = FoldAll(Sightings(log))

\* The service answered every repeated query as it answered it first
Consistent(l) ==
    \A i, j \in 1..Len(l) :
        (l[i].window = l[j].window /\ l[i].code = l[j].code)
            => l[i].resp = l[j].resp

\* The queries of a sweep with every repeated query left out: the log of
\* the sweep over the class-code list without its repeats
RECURSIVE WithoutRepeats(_)
WithoutRepeats(l) ==
    IF l = <<>> THEN <<>>
    ELSE LET before == SubSeq(l, 1, Len(l) - 1)
             q == l[Len(l)]
         IN  IF \E i \in 1..Len(before) :
                    before[i].window = q.window /\ before[i].code = q.code
             THEN WithoutRepeats(before)
             ELSE Append(WithoutRepeats(before), q)

CodesByKey(agg) == {<<agg[i].key, agg[i].class_codes>> : i \in 1..Len(agg)}

\* C14: merge idempotence: when the service answers a repeated query as
\* it answered it first, the sweep over a class-code list with a repeated
\* code returns the same cases, each with the same class_codes set, as the
\* sweep over the list without the repeat.
C14_DuplicateCodeAbsorbed ==
    (pc = "done" /\ Consistent(log))
        => CodesByKey(result) = CodesByKey(FoldAll(Sightings(WithoutRepeats(log))))

\* one case returned under 50111, under 50101 and under 50111 again
C14_Witness ==
    /\ pc = "done"
    /\ Consistent(log)
    /\ class_codes = <<Code50111, Code50101, Code50111>>
    /\ Len(log) = 3
    /\ \A i \in 1..3 : Len(log[i].resp.rows) = 1
    /\ Len(result) = 1
    /\ result[1].class_codes = {Code50111, Code50101}

\* from_api has been applied to raw_case
Normalised == pc \in {"normalised", "raised"}

\* The filing date of raw_case is one parse_date accepts
FilingDateParses == ParseDate(Get(raw_case.filingDate)).err = "none"

\* A county identifier that is a number, or a string int() reads
IsNumericCounty(v) == v.tag = "num" \/ (v.tag = "str" /\ IntOfStr(v.str).ok)
NumericCounty(v) == IF v.tag = "num" THEN v.num ELSE IntOfStr(v.str).val

\* C15: an absent or non-numeric county identifier is coerced to
\* county_no = 0 and never makes from_api fail, and a numeric one is coerced
\* to that integer: a row with a case number and a filing date that parses
\* always gives a summary, with that county_no.
C15_CountyCoerced ==
    (Normalised /\ raw_case.caseNo.tag # "absent" /\ FilingDateParses)
        => /\ pc = "normalised"
           /\ pending[1].county_no =
                IF IsNumericCounty(raw_case.countyNo)
                THEN NumericCounty(raw_case.countyNo) ELSE 0

\* C15, for the county identifiers that are absent, null, empty, a number
\* or a string int() reads: the same statement
C15_CountyCoercedWhenIntegerOrEmpty ==
    (Normalised /\ raw_case.caseNo.tag # "absent" /\ FilingDateParses
                /\ (IsNumericCounty(raw_case.countyNo)
                       \/ ~Truthy(Get(raw_case.countyNo))))
        => /\ pc = "normalised"
           /\ pending[1].county_no =
                IF IsNumericCounty(raw_case.countyNo)
                THEN NumericCounty(raw_case.countyNo) ELSE 0

\* C16: every summary from_api produces has a case_no that is a non-empty
\* string; a row whose caseNo is present but empty or null gives none.
C16_CaseNoNonEmpty ==
    pc = "normalised"
        => (pending[1].case_no.tag = "str" /\ Len(pending[1].case_no.str) > 0)

\* What does hold: case_no is the row's caseNo value as it came
C16_CaseNoIsPayloadValue ==
    pc = "normalised" => pending[1].case_no = raw_case.caseNo

\* C17: a row without the caseNo key never gives a summary: from_api
\* raises KeyError for it, unless its filing date fails to parse, and then
\* it raises the error of parse_date, which runs first.
C17_MissingCaseNoFails ==
    (Normalised /\ raw_case.caseNo.tag = "absent")
        => /\ pc = "raised"
           /\ pending = <<>>
           /\ error = IF FilingDateParses THEN "KeyError"
                      ELSE ParseDate(Get(raw_case.filingDate)).err

\* a row without caseNo, with a sound filing date, has raised KeyError
C17_Witness ==
    /\ raw_case.caseNo.tag = "absent"
    /\ raw_case.filingDate = JStr(Chars2025_03_15)
    /\ pc = "raised"
    /\ error = "KeyError"

\* C17 as stated: a row without the caseNo key always raises KeyError
C17_MissingCaseNoIsKeyError ==
    (Normalised /\ raw_case.caseNo.tag = "absent")
        => (pc = "raised" /\ error = "KeyError" /\ pending = <<>>)

\* The shapes YYYY-MM-DD and YYYY-MM, and the numbers at their positions
IsYMD(cs) ==
    /\ Len(cs) = 10
    /\ cs[5] = "-" /\ cs[8] = "-"
    /\ \A i \in {1, 2, 3, 4, 6, 7, 9, 10} : IsDigit(cs[i])
IsYM(cs) ==
    /\ Len(cs) = 7
    /\ cs[5] = "-"
    /\ \A i \in {1, 2, 3, 4, 6, 7} : IsDigit(cs[i])
YearAt(cs) ==
    DigitVal(cs[1]) * 1000 + DigitVal(cs[2]) * 100 + DigitVal(cs[3]) * 10 + DigitVal(cs[4])
TwoAt(cs, i) == DigitVal(cs[i]) * 10 + DigitVal(cs[i + 1])

\* Two or three integer literals, as int() reads them, between dashes
IntegerParts(cs) ==
    LET parts == Split(cs, "-")
    IN  /\ Len(parts) \in {2, 3}
        /\ \A i \in 1..Len(parts) : IntOfStr(parts[i]).ok
DateRead(cs) ==
    LET parts == Split(cs, "-")
    IN  [y |-> IntOfStr(parts[1]).val, m |-> IntOfStr(parts[2]).val,
         d |-> IF Len(parts) = 3 THEN IntOfStr(parts[3]).val ELSE 1]
ReadsAsDate(cs) ==
    IntegerParts(cs) /\ IsDate(DateRead(cs).y, DateRead(cs).m, DateRead(cs).d)

\* parse_date gave the date dt: the summary, if there is one, carries it,
\* and there is one when the rest of the row is sound
FilingDateIs(dt) ==
    /\ pc = "normalised" => pending[1].filing_date = dt
    /\ (raw_case.caseNo.tag # "absent" /\ CountyNo(raw_case.countyNo).ok)
          => pc = "normalised"
FilingDateRejected == pc = "raised" /\ error = "ValueError" /\ pending = <<>>

\* What parse_date does: an absent or empty value gives no date; a
\* YYYY-MM-DD string of a real date gives that date and a YYYY-MM string of
\* a real month its first day; so does every string of two or three
\* integer literals between dashes that name a real date (y-m-d, or y-m
\* with day 1), however they are padded; every other non-empty string
\* fails with ValueError and never yields a date.
FilingDateParsed ==
    Normalised =>
        LET v == raw_case.filingDate
        IN  /\ (v.tag \in {"absent", "null"} \/ v = JStr(<<>>))
                 => FilingDateIs(NoFiling)
            /\ (v.tag = "str" /\ v.str # <<>>) =>
                 /\ (IsYMD(v.str) /\ IsDate(YearAt(v.str), TwoAt(v.str, 6), TwoAt(v.str, 9)))
                      => FilingDateIs([y |-> YearAt(v.str), m |-> TwoAt(v.str, 6),
                                       d |-> TwoAt(v.str, 9)])
                 /\ (IsYM(v.str) /\ IsDate(YearAt(v.str), TwoAt(v.str, 6), 1))
                      => FilingDateIs([y |-> YearAt(v.str), m |-> TwoAt(v.str, 6),
                                       d |-> 1])
                 /\ IF ReadsAsDate(v.str) THEN FilingDateIs(DateRead(v.str))
                    ELSE FilingDateRejected

\* 2025-3-5, which is neither YYYY-MM-DD nor YYYY-MM, has given 2025-03-05
UnpaddedDateParsed ==
    /\ pc = "normalised"
    /\ raw_case.filingDate = JStr(<<"2", "0", "2", "5", "-", "3", "-", "5">>)
    /\ pending[1].filing_date = [y |-> 2025, m |-> 3, d |-> 5]

\* C18: parse_date of a row's filing date: an absent or empty value gives
\* no date; a YYYY-MM-DD string gives that date; a YYYY-MM string gives
\* the first day of that month; every other non-empty string fails with
\* ValueError and never yields a date.
C18_OnlyTwoFormatsParse ==
    Normalised =>
        LET v == raw_case.filingDate
        IN  /\ (v.tag \in {"absent", "null"} \/ v = JStr(<<>>))
                 => FilingDateIs(NoFiling)
            /\ (v.tag = "str" /\ v.str # <<>>) =>
                 /\ (IsYMD(v.str) /\ IsDate(YearAt(v.str), TwoAt(v.str, 6), TwoAt(v.str, 9)))
                      => FilingDateIs([y |-> YearAt(v.str), m |-> TwoAt(v.str, 6),
                                       d |-> TwoAt(v.str, 9)])
                 /\ (IsYM(v.str) /\ IsDate(YearAt(v.str), TwoAt(v.str, 6), 1))
                      => FilingDateIs([y |-> YearAt(v.str), m |-> TwoAt(v.str, 6),
                                       d |-> 1])
                 /\ (~IsYMD(v.str) /\ ~IsYM(v.str)) => FilingDateRejected

\* The rows of a response that from_api cannot normalise
BadRows(q) ==
    {k \in 1..Len(q.resp.rows) : FromApi(q.resp.rows[k], q.code).err # "none"}

\* C19: one returned row that fails normalisation (a filing date that does
\* not parse, a missing caseNo) fails the query and the whole call with the
\* error of the first such row: the query is the last one sent, the
\* collection holds only what the earlier queries gave (no row of this
\* response is merged, the bad one is not dropped to let the others
\* through) and nothing is returned.
C19_BadRowFailsSweep ==
    \A i \in 1..Len(log) :
        BadRows(log[i]) # {}
            => /\ i = Len(log)
               /\ pc = "raised"
               /\ LET first == CHOOSE k \in BadRows(log[i]) :
                                  \A j \in BadRows(log[i]) : k <= j
                  IN  error = FromApi(log[i].resp.rows[first], log[i].code).err
               /\ aggregated = FoldAll(Sightings(SubSeq(log, 1, i - 1)))
               /\ result = <<>>

\* the second query returned a sound row and then a row dated 03/15/2025,
\* after the first query's row had been merged
C19_Witness ==
    /\ pc = "raised"
    /\ error = "ValueError"
    /\ Len(log) = 2
    /\ log[2].resp.rows = <<RowA, RowBadDate>>
    /\ Len(log[1].resp.rows) = 1
    /\ Len(aggregated) = 1
    /\ aggregated[1].class_codes = {log[1].code}
    /\ result = <<>>

\* The record carries its summary's fields other than class_code, each
\* with the summary's value, and the filing date as YYYY-MM-DD or null
CarriesSummary(rec, summary) ==
    /\ rec.case_no = summary.case_no
    /\ rec.county_no = summary.county_no
    /\ rec.county_name = summary.county_name
    /\ rec.caption = summary.caption
    /\ rec.party_name = summary.party_name
    /\ rec.status = summary.status
    /\ rec.dob = summary.dob
    /\ rec.is_dob_sealed = summary.is_dob_sealed
    /\ IF summary.filing_date = NoFiling THEN rec.filing_date = JNull
       ELSE /\ rec.filing_date.tag = "str"
            /\ IsYMD(rec.filing_date.str)
            /\ summary.filing_date =
                 [y |-> YearAt(rec.filing_date.str), m |-> TwoAt(rec.filing_date.str, 6),
                  d |-> TwoAt(rec.filing_date.str, 9)]

\* C20, as the code has it: every record of flatten_aggregated carries
\* case_no, county_no, county_name, caption, party_name, status, dob and
\* is_dob_sealed of the summary it came from, each with the summary's
\* value, and filing_date as an ISO date string or null; it has no
\* class_code field: the summary's class_code is one of its class_codes.
C20_FlattenCarriesFields ==
    LET flat == FlattenAggregated(aggregated)
    IN  \A i \in 1..Len(aggregated) :
            /\ CarriesSummary(flat[i], aggregated[i].summary)
            /\ "class_code" \notin DOMAIN flat[i]
            /\ \E k \in 1..Len(flat[i].class_codes) :
                  flat[i].class_codes[k] = aggregated[i].summary.class_code

\* a record with a date and a record without, the first one's summary
\* found under 50101 and the case found again under 50111
C20_Witness ==
    /\ pc = "done"
    /\ Len(result) = 2
    /\ LET flat == FlattenAggregated(result)
       IN  /\ flat[1].filing_date = JStr(Chars2025_03_15)
           /\ flat[2].filing_date = JNull
           /\ result[1].summary.class_code = Code50101
           /\ flat[1].class_codes = <<Code50101, Code50111>>

\* C20 as stated: every record carries all the scalar fields of its
\* summary, class_code among them, each with the summary's value
C20_FlattenCarriesAllScalars ==
    LET flat == FlattenAggregated(aggregated)
    IN  \A i \in 1..Len(aggregated) :
            /\ CarriesSummary(flat[i], aggregated[i].summary)
            /\ "class_code" \in DOMAIN flat[i]
            /\ flat[i].class_code = aggregated[i].summary.class_code

\* C21: the sweep is strictly sequential: at most one search query is in
\* flight at any moment, and while one is, every row of every earlier
\* response has been folded into the collection: none is pending, and the
\* collection is the fold of all the rows returned so far.
C21_OneQueryInFlight ==
    /\ inflight \in {0, 1}
    /\ inflight = 1 <=> pc = "await"
    /\ pc = "await" => (pending = <<>> /\ aggregated = FoldAll(Sightings(log)))

\* the second query is in flight and the first one's two rows are folded
C21_Witness ==
    /\ pc = "await"
    /\ inflight = 1
    /\ Len(log) = 2
    /\ Len(log[1].resp.rows) = 2
    /\ Len(aggregated) = 2

-----------------------------------------------------------------------------
(* SpecFlatten: a caller flattening a collection it holds, more than once  *)

\* The rows a collection is folded from, each under the code of its query
FoldedSightings ==
    {[summary |-> FromApi(r, c).summary, code |-> c] :
        r \in RawRows, c \in {Code50111, Code50101}}

\* A collection whose one summary has a string where its date should be
IllFormedCollection ==
    LET s == [FromApi(RowA, Code50111).summary EXCEPT
                 !.filing_date = JStr(Chars2025_03_15)]
    IN  <<[key |-> KeyOf(s), summary |-> s, class_codes |-> {Code50111}]>>

Collections ==
    {<<>>, IllFormedCollection}
    \cup {FoldAll(ss) : ss \in SeqsUpTo(FoldedSightings, MaxFolded)}

InitFlatten ==
    /\ result \in Collections
    /\ aggregated = result
    /\ pc = "done"
    /\ start = Jan1_2025
    /\ end = Jan1_2025
    /\ span_days = 1
    /\ today = Jan1_2025
    /\ class_codes = <<Code50111, Code50101>>
    /\ client = "caller"
    /\ raw_case = NoPayload
    /\ gen = GenCreated
    /\ built = <<>>
    /\ error = "none"
    /\ own_client = FALSE
    /\ window = <<NoDate, NoDate>>
    /\ ci = 1
    /\ pending = <<>>
    /\ log = <<>>
    /\ inflight = 0
    /\ opened = 0
    /\ closed = 0
    /\ callerClosed = 0
    /\ CallerInit

\* scraper.py 55-75: flatten_aggregated(result); it reads data and writes
\* only its own list
FlattenCall ==
    /\ pc = "done"
    /\ Len(flattened) < MaxFlattenCalls
    /\ IF FlattenRaises(result) = "none"
       THEN /\ flattened' = Append(flattened, FlattenAggregated(result))
            /\ UNCHANGED <<pc, error>>
       ELSE /\ error' = FlattenRaises(result)
            /\ pc' = "raised"
            /\ UNCHANGED flattened
    /\ UNCHANGED <<inputs, gen, built, sweepVars, calls, previous, twins, cli>>

NextFlatten == FlattenCall

SpecFlatten == InitFlatten /\ [][NextFlatten]_vars

\* A collection as the sweep builds them: every filing_date is None or a date
WellFormed(data) ==
    \A i \in 1..Len(data) :
        \/ data[i].summary.filing_date = NoFiling
        \/ /\ DOMAIN data[i].summary.filing_date = {"y", "m", "d"}
           /\ IsDate(data[i].summary.filing_date.y, data[i].summary.filing_date.m,
                     data[i].summary.filing_date.d)

\* C22: flatten_aggregated is pure and total: a call on a well-formed
\* collection returns without error, leaves the collection (keys, order,
\* summaries, class_codes sets) as it was, and returns what every earlier
\* call on the same collection returned.
C22_FlattenPureTotal ==
    [][/\ result' = result
       /\ WellFormed(result) =>
            /\ error' = "none"
            /\ flattened' = Append(flattened, FlattenAggregated(result))
            /\ \A i \in 1..Len(flattened) : flattened'[Len(flattened')] = flattened[i]]_vars

\* a collection of two entries, one without a filing date, flattened twice
C22_Witness ==
    /\ Len(flattened) = 2
    /\ Len(result) = 2
    /\ \E i \in 1..2 : result[i].summary.filing_date = NoFiling
    /\ Len(flattened[1]) = 2
    /\ flattened[2] = flattened[1]
    /\ error = "none"

-----------------------------------------------------------------------------
(* SpecTwoCalls: a caller that calls fetch_case_summaries again, with the  *)
(* same arguments, after a call has returned or raised                     *)

InitTwoCalls ==
    /\ start = Jan1_2025
    /\ end = start
    /\ today = start + 1
    /\ span_days = 1
    /\ class_codes = <<Code50111>>
    /\ client \in {"caller", "none"}
    /\ raw_case = NoPayload
    /\ pc = "call"
    /\ gen = GenCreated
    /\ built = <<>>
    /\ error = "none"
    /\ SweepLocalsInit
    /\ CallerInit

\* A call whose accumulator is the one the call before it filled
CallAgain_SharedAccumulator ==
    /\ pc \in {"done", "raised"}
    /\ calls < MaxRecalls
    /\ calls' = calls + 1
    /\ previous' = IF calls = 0
                   THEN [log |-> log, result |-> result, returned |-> pc = "done"]
                   ELSE previous
    /\ pc' = "call"
    /\ gen' = GenCreated
    /\ built' = <<>>
    /\ error' = "none"
    /\ own_client' = FALSE
    /\ window' = <<NoDate, NoDate>>
    /\ ci' = 1
    /\ pending' = <<>>
    /\ result' = <<>>
    /\ log' = <<>>
    /\ opened' = 0
    /\ closed' = 0
    /\ callerClosed' = 0
    /\ UNCHANGED <<inputs, aggregated, inflight, flattened, twins, cli>>

\* The caller calls fetch_case_summaries again: a new generator (line 41)
\* and a new OrderedDict (line 38); the function has no other state
CallAgain ==
    /\ pc \in {"done", "raised"}
    /\ calls < MaxRecalls
    /\ calls' = calls + 1
    /\ previous' = IF calls = 0
                   THEN [log |-> log, result |-> result, returned |-> pc = "done"]
                   ELSE previous
    /\ pc' = "call"
    /\ gen' = GenCreated
    /\ built' = <<>>
    /\ error' = "none"
    /\ own_client' = FALSE
    /\ window' = <<NoDate, NoDate>>
    /\ ci' = 1
    /\ pending' = <<>>
    /\ aggregated' = <<>>
    /\ result' = <<>>
    /\ log' = <<>>
    /\ opened' = 0
    /\ closed' = 0
    /\ callerClosed' = 0
    /\ UNCHANGED <<inputs, inflight, flattened, twins, cli>>

NextTwoCalls == Next \/ CallAgain

SpecTwoCalls == InitTwoCalls /\ [][NextTwoCalls]_vars

\* The service answered the queries of l1 as it answered those of l2
SameResponses(l1, l2) ==
    /\ Len(l1) = Len(l2)
    /\ \A i \in 1..Len(l1) : l1[i].resp = l2[i].resp

\* C23: fetch_case_summaries carries no state from call to call: a sweep
\* given the arguments and the responses of the caller's first sweep
\* returns an equal collection (same keys in the same order, same
\* summaries, same class_codes), whatever sweep ran between the two, and a
\* sweep's accumulator holds the rows of its own queries only.
C23_NoCrossCallState ==
    /\ (pc = "done" /\ calls >= 1 /\ previous.returned
           /\ SameResponses(log, previous.log))
          => result = previous.result
    /\ pc \in {"call", "for_window", "for_code", "await"}
          => aggregated = FoldAll(Sightings(log))

\* the third sweep got the two rows the first one got, and returned the
\* same non-empty collection
C23_Witness ==
    /\ pc = "done"
    /\ calls = 2
    /\ previous.returned
    /\ SameResponses(log, previous.log)
    /\ Len(previous.result) >= 1
    /\ RowsIn(log) >= 2
    /\ result = previous.result

-----------------------------------------------------------------------------
(* SpecTwins: two generations of build_windows for the same arguments,     *)
(* advanced in any interleaving, while the date may change                 *)

TwinStarts == {Jan1_2025, Jan1_2025 + 2}
TwinEnds == {NoDate, Jan1_2025 + 1, Jan1_2025 + 4}
TwinSpans == {0, 1, 2, 3, BigSpan}
FirstDay == Jan1_2025 + 1

InitTwins ==
    /\ start \in TwinStarts
    /\ end \in TwinEnds
    /\ span_days \in TwinSpans
    /\ today = FirstDay
    /\ class_codes = <<>>
    /\ client = "caller"
    /\ raw_case = NoPayload
    /\ pc = "iterating"
    /\ gen = GenCreated
    /\ built = <<>>
    /\ error = "none"
    /\ SweepLocalsInit
    /\ CallerInit

\* One next() on generation k; its first resumption reads date.today()
ConsumeTwin ==
    \E k \in 1..2 :
        /\ twins[k].gen.st # "finished"
        /\ LET r == BuildWindowsResume(twins[k].gen, start, end, span_days, today)
           IN  twins' = [twins EXCEPT
                  ![k] = [gen |-> r.gen,
                          built |-> IF r.kind = "yield" THEN Append(@.built, r.win)
                                    ELSE @.built,
                          error |-> r.err,
                          day |-> IF @.gen.st = "created" THEN today ELSE @.day]]
        /\ UNCHANGED <<inputs, pc, gen, built, error, sweepVars, flattened, calls,
                       previous, cli>>

\* The date changes
Midnight ==
    /\ today < FirstDay + MaxMidnights
    /\ today' = today + 1
    /\ UNCHANGED <<start, end, span_days, class_codes, client, raw_case, pc, gen,
                   built, error, sweepVars, callerVars>>

NextTwins == ConsumeTwin \/ Midnight

SpecTwins == InitTwins /\ [][NextTwins]_vars

\* Both generations have run to their end
TwinsEnded == \A k \in 1..2 : twins[k].gen.st = "finished"

\* C24, with the clock named: window generation is a restartable function
\* of (start, end, span_days) when end is given, and of start, span_days
\* and the date of the generation's first resumption when end is None:
\* two such generations, advanced in any interleaving, never disagree on a
\* window, and run to their end they have yielded the same windows and
\* ended alike; a step of one leaves the other and the arguments alone.
C24_TwinsAgree ==
    /\ (end # NoDate \/ (twins[1].day = twins[2].day /\ twins[1].day # NoDate))
          => /\ IsPrefix(twins[1].built, twins[2].built)
                   \/ IsPrefix(twins[2].built, twins[1].built)
             /\ TwinsEnded => (twins[1].built = twins[2].built
                                  /\ twins[1].error = twins[2].error)
    /\ <<gen, built, error, pc>> = <<GenCreated, <<>>, "none", "iterating">>

\* two generations for end = None first resumed on the same day, ended on
\* different days with the same two windows
C24_Witness ==
    /\ end = NoDate
    /\ TwinsEnded
    /\ twins[1].day = FirstDay /\ twins[2].day = FirstDay
    /\ today = FirstDay + 1
    /\ Len(twins[1].built) = 2
    /\ twins[1].built = twins[2].built

\* C24 as stated: two generations of the same (start, end, span_days) run
\* to their end have yielded the same windows
C24_TwinsAgreeWhateverTheDay ==
    TwinsEnded => (twins[1].built = twins[2].built /\ twins[1].error = twins[2].error)

-----------------------------------------------------------------------------
(* SpecResolve: _resolve_class_codes of main.py and of detail_scraper.py   *)

Code30401 == <<3, 0, 4, 0, 1>>
Code30402 == <<3, 0, 4, 0, 2>>
Code30902 == <<3, 0, 9, 0, 2>>
Code30901 == <<3, 0, 9, 0, 1>>
Code30703 == <<3, 0, 7, 0, 3>>
Code30701 == <<3, 0, 7, 0, 1>>
Code99999 == <<9, 9, 9, 9, 9>>

ClassCode(code, label) == [code |-> code, label |-> label]

\* constants.DEFAULT_CLASS_CODES
DEFAULT_CLASS_CODES ==
    <<ClassCode(Code50111, <<"Wills filed - no probate">>),
      ClassCode(Code50101, <<"Probate Unscheduled">>),
      ClassCode(Code30401, <<"Foreclosure of Mortgage">>),
      ClassCode(Code30402, <<"Agricultural Foreclosure">>),
      ClassCode(Code30902, <<"Small Claims, Eviction Due to Foreclosure">>),
      ClassCode(Code30901, <<"Small Claims, Eviction">>),
      ClassCode(Code30703, <<"Municipal Utility Lien">>),
      ClassCode(Code30701, <<"Construction Lien">>)>>

\* lookup = {code.code: code for code in DEFAULT_CLASS_CODES}
InLookup(code) == \E i \in 1..Len(DEFAULT_CLASS_CODES) : DEFAULT_CLASS_CODES[i].code = code
Lookup(code) ==
    DEFAULT_CLASS_CODES[CHOOSE i \in 1..Len(DEFAULT_CLASS_CODES) :
                            DEFAULT_CLASS_CODES[i].code = code]

\* f"Class code {code}"
SynthesizedLabel(code) ==
    <<"Class code ">> \o [i \in 1..Len(code) |-> DigitChars[code[i] + 1]]

\* A resolver that leaves the codes it does not know out
ResolveMain_DropsUnknown(selected) ==
    IF selected = <<>> THEN [exit |-> "none", resolved |-> DEFAULT_CLASS_CODES]
    ELSE [exit |-> "none",
          resolved |-> LET known == SelectSeq(selected, InLookup)
                       IN  [i \in 1..Len(known) |-> Lookup(known[i])]]

\* main.py 23-34
ResolveMain(selected) ==
    IF selected = <<>> THEN [exit |-> "none", resolved |-> DEFAULT_CLASS_CODES]
    ELSE [exit |-> "none",
          resolved |-> [i \in 1..Len(selected) |->
                           IF InLookup(selected[i]) THEN Lookup(selected[i])
                           ELSE ClassCode(selected[i], SynthesizedLabel(selected[i]))]]

\* detail_scraper.py 29-36
ResolveDetail(selected) ==
    IF selected = <<>> THEN [exit |-> "none", resolved |-> DEFAULT_CLASS_CODES]
    ELSE IF \E i \in 1..Len(selected) : ~InLookup(selected[i])
    THEN [exit |-> "SystemExit", resolved |-> <<>>]
    ELSE [exit |-> "none", resolved |-> [i \in 1..Len(selected) |-> Lookup(selected[i])]]

\* What --class-code may name: codes of the default set, and others
SelectableCodes == {Code50111, Code50101, Code30701, Code99999, <<>>}

InitResolve ==
    /\ cli \in {[program |-> p, selected |-> s, resolved |-> <<>>,
                 exit |-> "none", at |-> "resolving"] :
                   p \in {"main", "detail_scraper"},
                   s \in {<<>>} \cup SeqsUpTo(SelectableCodes, MaxSelected)}
    /\ flattened = <<>>
    /\ calls = 0
    /\ previous = NoCall
    /\ twins = <<NewTwin, NewTwin>>
    /\ start = Jan1_2025
    /\ end = NoDate
    /\ span_days = 7
    /\ today = Jan1_2025
    /\ class_codes = <<>>
    /\ client = "none"
    /\ raw_case = NoPayload
    /\ pc = "call"
    /\ gen = GenCreated
    /\ built = <<>>
    /\ error = "none"
    /\ SweepLocalsInit

\* class_codes = _resolve_class_codes(args.class_codes or [])
ResolveCall ==
    /\ cli.at = "resolving"
    /\ LET r == IF cli.program = "main" THEN ResolveMain(cli.selected)
                ELSE ResolveDetail(cli.selected)
       IN  cli' = [cli EXCEPT !.resolved = r.resolved, !.exit = r.exit,
                              !.at = IF r.exit = "none" THEN "resolved" ELSE "exited"]
    /\ UNCHANGED <<inputs, pc, gen, built, error, sweepVars, flattened, calls,
                   previous, twins>>

NextResolve == ResolveCall

SpecResolve == InitResolve /\ [][NextResolve]_vars

\* One ClassCode per selected entry, in the order selected, a code of the
\* default set with its label and any other with a synthesized one
ResolvedAsSelected ==
    /\ cli.at = "resolved"
    /\ Len(cli.resolved) = Len(cli.selected)
    /\ \A i \in 1..Len(cli.selected) :
          /\ cli.resolved[i].code = cli.selected[i]
          /\ cli.resolved[i].label =
                IF \E j \in 1..Len(DEFAULT_CLASS_CODES) :
                       DEFAULT_CLASS_CODES[j].code = cli.selected[i]
                THEN DEFAULT_CLASS_CODES[CHOOSE j \in 1..Len(DEFAULT_CLASS_CODES) :
                          DEFAULT_CLASS_CODES[j].code = cli.selected[i]].label
                ELSE <<"Class code ">> \o [k \in 1..Len(cli.selected[i]) |->
                                              DigitChars[cli.selected[i][k] + 1]]

\* C25, program by program: an empty selection resolves to the default set
\* in its declared order; main.py's resolver returns one ClassCode per
\* selected entry in the same order, a code outside the default set
\* getting a synthesized label; detail_scraper.py's resolver does so only
\* when every selected code is of the default set, and exits otherwise.
C25_ResolvedPerProgram ==
    cli.at # "resolving" =>
        IF cli.selected = <<>>
        THEN cli.at = "resolved" /\ cli.resolved = DEFAULT_CLASS_CODES
        ELSE IF cli.program = "main" THEN ResolvedAsSelected
        ELSE IF \A i \in 1..Len(cli.selected) :
                   \E j \in 1..Len(DEFAULT_CLASS_CODES) :
                       DEFAULT_CLASS_CODES[j].code = cli.selected[i]
        THEN ResolvedAsSelected
        ELSE cli.at = "exited" /\ cli.exit = "SystemExit" /\ cli.resolved = <<>>

\* main.py has resolved 99999 and 50111 to a synthesized entry and a default
C25_Witness ==
    /\ cli.program = "main"
    /\ cli.selected = <<Code99999, Code50111>>
    /\ cli.at = "resolved"
    /\ cli.resolved = <<ClassCode(Code99999, <<"Class code ", "9", "9", "9", "9", "9">>),
                        ClassCode(Code50111, <<"Wills filed - no probate">>)>>

\* C25 as stated: every resolver returns one ClassCode per selected entry,
\* codes outside the default set included, and the default set for an
\* empty selection
C25_ResolvedAsSelected ==
    cli.at # "resolving" =>
        IF cli.selected = <<>>
        THEN cli.at = "resolved" /\ cli.resolved = DEFAULT_CLASS_CODES
        ELSE ResolvedAsSelected

\* The codes of the class_codes argument
CodesAsked == {class_codes[i] : i \in 1..Len(class_codes)}

\* C26: after each row has been folded, and in the returned collection,
\* every entry has a non-empty class_codes set that contains the
\* class_code of its own summary and holds only codes of the class_codes
\* argument of the sweep.
C26_ClassCodesOfEntry ==
    \A data \in {aggregated, result} :
        \A i \in 1..Len(data) :
            /\ data[i].class_codes # {}
            /\ data[i].summary.class_code \in data[i].class_codes
            /\ data[i].class_codes \subseteq CodesAsked

\* an entry first seen under 50101 and seen again under 50111, returned
C26_Witness ==
    /\ pc = "done"
    /\ class_codes = <<Code50101, Code50111>>
    /\ Len(result) = 1
    /\ result[1].summary.class_code = Code50101
    /\ result[1].class_codes = {Code50101, Code50111}

\* The search client answers every query: a session exists (the caller's,
\* or one whose bootstrap request succeeded) and no query ended in an HTTP
\* error or in a row that cannot be normalised
AnswersEveryQuery ==
    /\ ~(own_client /\ log = <<>> /\ pc = "raised" /\ error = "HTTPError")
    /\ \A i \in 1..Len(log) :
          /\ log[i].resp.kind # "http_error"
          /\ BadRows(log[i]) = {}

\* ceil(((end - start).days + 1) / span_days) * len(class_codes)
QueriesDue ==
    LET n == EndDate - start + 1
    IN  ((n + span_days - 1) \div span_days) * Len(class_codes)

\* C27: for every start <= end, span_days >= 1, finite class-code list and
\* search client that answers every query, the sweep terminates after
\* issuing exactly ceil(((end - start).days + 1) / span_days) *
\* len(class_codes) queries, duplicate codes counted each time.
C27_QueryCount ==
    (start <= EndDate /\ span_days >= 1 /\ AnswersEveryQuery)
        => /\ Len(log) <= QueriesDue
           /\ pc # "raised"
           /\ pc = "done" => Len(log) = QueriesDue

\* C27, away from the limits of date and timedelta: the same statement for
\* the inputs with EndDate + span_days <= date.max
C27_QueryCountBelowDateMax ==
    (start <= EndDate /\ span_days >= 1 /\ AnswersEveryQuery
        /\ EndDate + span_days <= DateMax)
        => /\ Len(log) <= QueriesDue
           /\ pc # "raised"
           /\ pc = "done" => Len(log) = QueriesDue

\* two windows of one day and two class codes: four queries, then done
C27_Witness ==
    /\ pc = "done"
    /\ span_days = 1
    /\ Len(built) = 2
    /\ Len(class_codes) = 2
    /\ Len(log) = 4
    /\ AnswersEveryQuery

\* C28: a search client supplied by the caller is never closed by the
\* sweep, on success or on any failure path; only a client that the call
\* created itself is closed, and it is closed exactly once.
C28_OnlyOwnClientClosed ==
    /\ callerClosed = 0
    /\ client = "caller" => (opened = 0 /\ closed = 0)
    /\ closed <= opened
    /\ (pc \in {"done", "raised"} /\ opened = 1) => closed = 1

\* C28 for the calls whose session was obtained: the caller's client is
\* never closed, and the client the call made, once its bootstrap request
\* has succeeded, is closed exactly once when the call ends
C28_OnlyOwnClientClosedOnceBootstrapped ==
    /\ callerClosed = 0
    /\ client = "caller" => (opened = 0 /\ closed = 0)
    /\ closed <= opened
    /\ (pc \in {"done", "raised"} /\ opened = 1
          /\ ~(log = <<>> /\ error = "HTTPError"))
        => closed = 1

\* a query of a sweep with the caller's client failed: the call has ended
\* and nothing was closed
C28_Witness ==
    /\ client = "caller"
    /\ pc = "raised"
    /\ error = "HTTPError"
    /\ Len(log) = 1
    /\ closed = 0
    /\ callerClosed = 0

\* C29: when the class-code list is empty or start > end (with
\* span_days >= 1), the sweep issues no search query at all and returns an
\* empty collection without error, and flatten_aggregated of it is the
\* empty sequence.
C29_NothingToSweep ==
    (span_days >= 1 /\ (class_codes = <<>> \/ start > EndDate))
        => /\ log = <<>>
           /\ pc # "raised"
           /\ pc = "done" => /\ result = <<>>
                             /\ FlattenRaises(result) = "none"
                             /\ FlattenAggregated(result) = <<>>

\* C29 for the calls whose session was obtained and whose span stays
\* within timedelta and, where a window is built, within date.max
C29_NothingToSweepWithinLimits ==
    (span_days >= 1 /\ (class_codes = <<>> \/ start > EndDate)
        /\ ~(own_client /\ error = "HTTPError")
        /\ span_days - 1 <= TimedeltaMaxDays
        /\ (start <= EndDate => EndDate + span_days <= DateMax))
        => /\ log = <<>>
           /\ pc # "raised"
           /\ pc = "done" => /\ result = <<>>
                             /\ FlattenRaises(result) = "none"
                             /\ FlattenAggregated(result) = <<>>

\* a sweep of two windows with no class code has returned: no query
C29_Witness ==
    /\ pc = "done"
    /\ class_codes = <<>>
    /\ Len(built) = 2
    /\ log = <<>>
    /\ result = <<>>

-----------------------------------------------------------------------------
(* SpecIdentity: the sweep of one single-day window and one class code     *)
(* whose query is answered by rows of one case number that differ in the   *)
(* county identifier: two numbers, 0, null, and no countyNo key at all     *)

RowOtherCounty ==
    Row(JStr(<<"2025CV000123">>), JNum(40), JStr(<<"Estate of F">>), JStr(Chars2025_03_15))
RowNullCounty ==
    Row(JStr(<<"2025CV000123">>), JNull, JStr(<<"Estate of G">>), JStr(Chars2025_03_15))
RowZeroCounty ==
    Row(JStr(<<"2025CV000123">>), JNum(0), JStr(<<"Estate of H">>), JStr(Chars2025_03_15))
IdentityRows == {RowA, RowOtherCounty, RowC, RowNullCounty, RowZeroCounty}

InitIdentity ==
    /\ start = Jan1_2025
    /\ end = start
    /\ today = start + 1
    /\ span_days = 1
    /\ class_codes = <<Code50111>>
    /\ client = "caller"
    /\ raw_case = NoPayload
    /\ pc = "call"
    /\ gen = GenCreated
    /\ built = <<>>
    /\ error = "none"
    /\ SweepLocalsInit
    /\ CallerInit

\* Line 43 and client.py 47-54: the service answers the query with rows
\* of IdentityRows, which advanced_case_search normalises
ResponseIdentity ==
    /\ pc = "await"
    /\ \E rows \in SeqsUpTo(IdentityRows, MaxIdentityRows) :
         LET resp == [kind |-> "cases", rows |-> rows]
             out == AdvancedCaseSearch(resp, class_codes[ci])
         IN  /\ log' = [log EXCEPT ![Len(log)].resp = resp]
             /\ inflight' = inflight - 1
             /\ IF out.err = "none"
                THEN /\ pending' = out.summaries
                     /\ pc' = "for_summary"
                     /\ UNCHANGED <<error, closed, callerClosed>>
                ELSE /\ RaiseInTry(out.err)
                     /\ UNCHANGED pending
    /\ UNCHANGED <<inputs, callerVars, gen, built, own_client, window, ci, aggregated, result,
                   opened>>

NextIdentity ==
    \/ Enter
    \/ NextWindow
    \/ IssueQuery
    \/ CodesExhausted
    \/ ResponseIdentity
    \/ FoldRow
    \/ SummariesExhausted
    \/ Return

SpecIdentity == InitIdentity /\ [][NextIdentity]_vars

\* The rows of the answer that have been folded so far
FoldedRows ==
    IF log = <<>> \/ log[1].resp.kind # "cases" THEN <<>>
    ELSE SubSeq(log[1].resp.rows, 1, Len(log[1].resp.rows) - Len(pending))

\* The county identifier of a row is absent, null or 0
NoCounty(row) ==
    \/ row.countyNo.tag \in {"absent", "null"}
    \/ row.countyNo.tag = "num" /\ row.countyNo.num = 0

\* The positions in aggregated of the entries keyed (case_no, county)
EntriesOf(case_no, county) ==
    {k \in 1..Len(aggregated) : aggregated[k].key = <<case_no, county>>}

\* C30: case identity is the pair (case_no, county_no) after
\* normalization: two rows with the same case_no and different county
\* numbers always yield two distinct entries, while rows with the same
\* case_no whose county identifier is absent, null or 0 all collapse into
\* the single entry keyed (case_no, 0), the first such row supplying the
\* summary.
C30_CaseIdentity ==
    LET rows == FoldedRows
        blank == {i \in 1..Len(rows) : NoCounty(rows[i])}
    IN  /\ \A i, j \in (1..Len(rows)) \ blank :
              (rows[i].caseNo = rows[j].caseNo
                  /\ rows[i].countyNo.num # rows[j].countyNo.num)
              => /\ Cardinality(EntriesOf(rows[i].caseNo, rows[i].countyNo.num)) = 1
                 /\ Cardinality(EntriesOf(rows[j].caseNo, rows[j].countyNo.num)) = 1
                 /\ EntriesOf(rows[i].caseNo, rows[i].countyNo.num)
                      # EntriesOf(rows[j].caseNo, rows[j].countyNo.num)
        /\ \A i \in blank :
              LET first == CHOOSE f \in blank :
                               /\ rows[f].caseNo = rows[i].caseNo
                               /\ \A g \in blank :
                                     rows[g].caseNo = rows[i].caseNo => f <= g
                  mine == EntriesOf(rows[i].caseNo, 0)
              IN  /\ Cardinality(mine) = 1
                  /\ \A k \in mine :
                        /\ aggregated[k].summary.raw = rows[first]
                        /\ aggregated[k].summary.county_no = 0
        /\ pc = "done" => result = aggregated

\* the rows without a county, with county 71, with null and with 0 were
\* folded into two entries, the first of them from the row without a county
C30_Witness ==
    /\ pc = "done"
    /\ log[1].resp.rows \in {<<RowC, RowA, RowNullCounty>>, <<RowC, RowA, RowZeroCounty>>}
    /\ Len(result) = 2
    /\ result[1].key[2] = 0
    /\ result[1].summary.raw = RowC
    /\ result[2].key[2] = 71

====
